---- MODULE Spec2Model ----
(***************************************************************************)
(* NovelVerse (src/app.py): the per-chapter adaptation pipeline            *)
(* run_pipeline, driven by main, with the persisted story context          *)
(* (story_context.json) and the append-only transcript                     *)
(* (full_hindi_story.txt).                                                 *)
(*                                                                         *)
(* One step of the model runs the program from one blocking point (a       *)
(* generator round trip or a line read from the terminal) to the next.     *)
(* Python values are modelled as follows:                                  *)
(*   - None is the string NONE;                                            *)
(*   - a text is the sequence of its tokens (words and " " for white       *)
(*     space), the empty text is << >>;                                    *)
(*   - a dict with string keys is a function, the empty dict is EmptyMap;  *)
(*   - a raw generator response is a record: its tokens, whether           *)
(*     json.loads accepts the string extract_json isolates, and the value  *)
(*     json.loads then returns;                                            *)
(*   - a parsed JSON value is a record: whether it is a dict, its Python   *)
(*     truth value, and the entries the pipeline reads from it.            *)
(*                                                                         *)
(* Spec is the pipeline. Two further specifications look closer at one     *)
(* function each: SpecExtract at extract_json on the characters of its     *)
(* argument, SpecSave at save_context on the steps of its write.           *)
(***************************************************************************)
EXTENDS Integers, Sequences, FiniteSets, TLC

VARIABLES
    stored,          \* story_context.json: does it exist, and its content
    transcript,      \* full_hindi_story.txt: the appended chapter blocks
    pc,              \* where main / run_pipeline is blocked
    context,         \* the in-memory context of the running process
    attempt,         \* loop variable of the analysis retry loop
    analysis_raw,    \* raw summarizer output of the last attempt
    analysis_data,   \* extract_json(analysis_raw)
    suggestions,     \* name suggestions still to be prompted for
    hindi_story,     \* the adapter's return value
    reprompts,       \* invalid entries typed at the current prompt
    runs,            \* number of main runs started on this story
    pre_context,     \* the context as run_pipeline received it
    result,          \* how the last main run ended
    city_prompts,    \* times the city-selection prompt was shown
    loc_chapters,    \* chapters with locations that reached the location stage
    naming_payload,  \* characters sent to the naming worker in this run
    choice,          \* the line last typed at a prompt of this chapter
    new_cumulative_summary,  \* what the context_updater call returned
    calls,           \* the generator calls of this run_pipeline call, in order
    last_reply,      \* what the generator call that returned last returned
    hindi_chapter,   \* the chapter text run_pipeline returned to main
    ex_input,        \* extract_json alone: the text it is called with
    ex_result,       \* extract_json alone: what it returned
    save_arg,        \* save_context alone: the context it is called with
    save_pc,         \* save_context alone: how far the write has got
    prior_disk,      \* save_context alone: the file before the call
    disk             \* save_context alone: the file as it is on disk

\* the variables of the pipeline
pipeline_vars ==
    <<stored, transcript, pc, context, attempt, analysis_raw, analysis_data,
      suggestions, hindi_story, reprompts, runs, pre_context, result,
      city_prompts, loc_chapters, naming_payload, choice,
      new_cumulative_summary, calls, last_reply, hindi_chapter>>

\* the variables of the closer views of extract_json and of save_context
extract_vars == <<ex_input, ex_result>>

save_vars == <<save_arg, save_pc, prior_disk, disk>>

vars == <<pipeline_vars, extract_vars, save_vars>>

(* ------------------------------ bounds -------------------------------- *)

\* main is run at most MaxRuns times on the story
MaxRuns == 2
\* at most MaxInvalid invalid entries are typed at one prompt
MaxInvalid == 1

(* -------------------------- program constants ------------------------- *)

NONE == "<None>"

ANCIENT_INDIAN_CITIES ==
    << "Pataliputra", "Ayodhya", "Hastinapur", "Indraprastha", "Ujjain",
       "Kashi", "Mathura", "Dwarka", "Kurukshetra", "Takshashila",
       "Kanyakubja", "Vaishali", "Rajgriha", "Shravasti", "Kapilavastu",
       "Gandhara", "Magadha", "Kosala", "Avanti", "Chedi" >>

max_retries == 2

EmptyMap == [k \in {} |-> NONE]

DefaultContext ==
    [ chapter_count       |-> 0,
      name_mapping        |-> EmptyMap,
      primary_indian_city |-> NONE,
      city_mapping        |-> EmptyMap,
      cumulative_summary  |-> << "This is the beginning of the story." >>,
      all_characters      |-> << >> ]

FailureMessage ==
    << "Chapter", " ", "processing", " ", "failed", " ", "due", " ", "to", " ",
       "analysis", " ", "error." >>

(* ------------------------- values and helpers ------------------------- *)

\* a parsed JSON value that is the empty dict {}
EmptyDict ==
    [ isdict |-> TRUE, nonempty |-> FALSE, characters |-> << >>,
      locations |-> << >>, name_suggestions |-> << >> ]

\* a parsed JSON value that is not a dict: a non-empty array such as [1]
ArrayValue ==
    [ isdict |-> FALSE, nonempty |-> TRUE, characters |-> << >>,
      locations |-> << >>, name_suggestions |-> << >> ]

\* a parsed JSON value that is not a dict and is falsy: [] or null
EmptyArrayValue ==
    [ isdict |-> FALSE, nonempty |-> FALSE, characters |-> << >>,
      locations |-> << >>, name_suggestions |-> << >> ]

\* the empty string
EmptyRaw == [ words |-> << >>, parses |-> FALSE, val |-> EmptyDict ]

\* a response that is plain text
TextRaw(w) == [ words |-> w, parses |-> FALSE, val |-> EmptyDict ]

\* a response whose isolated string json.loads parses to v
JsonRaw(v) == [ words |-> << "json" >>, parses |-> TRUE, val |-> v ]

\* Python truth value of a string
Truthy(words) == words # << >>

\* str.lower() on the species strings of the model
Lower(s) ==
    CASE s = "Human" -> "human"
      [] s = "HUMAN" -> "human"
      [] s = "Animal" -> "animal"
      [] OTHER -> s

\* str.strip(): drops leading and trailing white space
RECURSIVE LStrip(_)
LStrip(w) == IF w # << >> /\ Head(w) = " " THEN LStrip(Tail(w)) ELSE w

RECURSIVE RStrip(_)
RStrip(w) ==
    IF w # << >> /\ w[Len(w)] = " " THEN RStrip(SubSeq(w, 1, Len(w) - 1)) ELSE w

Strip(w) == RStrip(LStrip(w))

\* the test  "failed" in hindi_chapter  of main
ContainsFailed(w) == \E i \in 1..Len(w) : w[i] = "failed"

\* d[k] = v on a dict
DictSet(d, k, v) == (k :> v) @@ d

RECURSIVE DictSetAll(_, _, _)
DictSetAll(d, keys, v) ==
    IF keys = << >> THEN d
    ELSE DictSetAll(DictSet(d, Head(keys), v), Tail(keys), v)

\* {char.get('name') for char in chars}
NamesOf(chars) == { chars[i].name : i \in 1..Len(chars) }

(* --------------------------- pure functions --------------------------- *)

\* Worker.process_input: the model's content, or "" when invoke raises
process_input(outcome) ==
    IF outcome.raised THEN EmptyRaw ELSE outcome.content

\* extract_json: {} for an empty text and for a text json.loads rejects,
\* otherwise whatever json.loads returns (a dict or not)
extract_json(text) ==
    IF ~Truthy(text.words) THEN EmptyDict
    ELSE IF text.parses THEN text.val
    ELSE EmptyDict

(* ------------- extract_json on the characters of a text --------------- *)
(* Here a text is the sequence of its lexical units: " " (white space),  *)
(* "p" (a word of prose), FENCE_JSON (three backquotes and the word    *)
(* json) and FENCE (three backquotes), the JSON punctuation { } [ ] , :  *)
(* and the double quote, and the literals 1 and null. A JSON value is    *)
(* its kind with its text free of white space outside strings.           *)

Q == "\""

FENCE_JSON == "'''json"

FENCE == "'''"

\* (the two strings above are written with ' for each backquote)
\* the three backquotes of the closing fence are also the first three
\* characters of FENCE_JSON
IsFence(t) == t \in { FENCE_JSON, FENCE }

ParseFailure == [ ok |-> FALSE, kind |-> "", canon |-> << >>, rest |-> << >> ]

Parsed(kind, canon, rest) ==
    [ ok |-> TRUE, kind |-> kind, canon |-> canon, rest |-> rest ]

RECURSIVE ParseString(_, _)
RECURSIVE ParseValue(_)
RECURSIVE ParseMembers(_, _)
RECURSIVE ParseElements(_, _)

\* a string literal after its opening quote: ends at the next quote
ParseString(s, acc) ==
    IF s = << >> THEN ParseFailure
    ELSE IF Head(s) = Q THEN Parsed("str", Append(acc, Q), Tail(s))
    ELSE ParseString(Tail(s), Append(acc, Head(s)))

\* the members of an object after "{" or after a ","
ParseMembers(s, acc) ==
    IF s = << >> THEN ParseFailure
    ELSE IF Head(s) = "}"
    THEN IF acc = << "{" >> THEN Parsed("dict", << "{", "}" >>, Tail(s))
         ELSE ParseFailure
    ELSE IF Head(s) # Q THEN ParseFailure
    ELSE LET key   == ParseString(Tail(s), << Q >>)
             colon == LStrip(key.rest)
         IN
         IF ~key.ok \/ colon = << >> \/ Head(colon) # ":" THEN ParseFailure
         ELSE LET val   == ParseValue(Tail(colon))
                  after == LStrip(val.rest)
                  sofar == acc \o key.canon \o << ":" >> \o val.canon
              IN
              IF ~val.ok \/ after = << >> THEN ParseFailure
              ELSE IF Head(after) = ","
              THEN ParseMembers(LStrip(Tail(after)), Append(sofar, ","))
              ELSE IF Head(after) = "}"
              THEN Parsed("dict", Append(sofar, "}"), Tail(after))
              ELSE ParseFailure

\* the elements of an array after "[" or after a ","
ParseElements(s, acc) ==
    IF s = << >> THEN ParseFailure
    ELSE IF Head(s) = "]"
    THEN IF acc = << "[" >> THEN Parsed("list", << "[", "]" >>, Tail(s))
         ELSE ParseFailure
    ELSE LET val   == ParseValue(s)
             after == LStrip(val.rest)
             sofar == acc \o val.canon
         IN
         IF ~val.ok \/ after = << >> THEN ParseFailure
         ELSE IF Head(after) = ","
         THEN ParseElements(LStrip(Tail(after)), Append(sofar, ","))
         ELSE IF Head(after) = "]"
         THEN Parsed("list", Append(sofar, "]"), Tail(after))
         ELSE ParseFailure

ParseValue(s) ==
    LET t == LStrip(s) IN
    IF t = << >> THEN ParseFailure
    ELSE CASE Head(t) = "{"    -> ParseMembers(LStrip(Tail(t)), << "{" >>)
           [] Head(t) = "["    -> ParseElements(LStrip(Tail(t)), << "[" >>)
           [] Head(t) = Q      -> ParseString(Tail(t), << Q >>)
           [] Head(t) = "1"    -> Parsed("int", << "1" >>, Tail(t))
           [] Head(t) = "null" -> Parsed("None", << "null" >>, Tail(t))
           [] OTHER            -> ParseFailure

\* json.loads: one value, with nothing but white space around it
json_loads(s) ==
    LET r == ParseValue(s) IN
    IF r.ok /\ LStrip(r.rest) = << >> THEN r ELSE ParseFailure

\* re.search of line 51, fence, white space, lazy group, white space,
\* fence: the places where a FENCE_JSON is followed by a fence
FenceOpen(text) ==
    { i \in 1..Len(text) :
        /\ text[i] = FENCE_JSON
        /\ \E j \in (i + 1)..Len(text) : IsFence(text[j]) }

Min(S) == CHOOSE x \in S : \A y \in S : x <= y

Max(S) == CHOOSE x \in S : \A y \in S : y <= x

json_block_match(text) ==
    LET open  == Min(FenceOpen(text))
        close == Min({ j \in (open + 1)..Len(text) : IsFence(text[j]) })
    IN  Strip(SubSeq(text, open + 1, close - 1))

\* text.find('{') and text.rfind('}')
Positions(text, t) == { i \in 1..Len(text) : text[i] = t }

\* lines 51-60: the string handed on to the comma repair
json_string(text) ==
    IF FenceOpen(text) # {} THEN json_block_match(text)
    ELSE LET starts == Positions(text, "{")
             ends   == Positions(text, "}")
         IN
         IF starts # {} /\ ends # {} /\ Max(ends) > Min(starts)
         THEN SubSeq(text, Min(starts), Max(ends))
         ELSE text

\* re.sub(r',\s*([}\]])', r'\1', json_string)
RECURSIVE remove_trailing_commas(_)
remove_trailing_commas(s) ==
    IF s = << >> THEN << >>
    ELSE LET next == LStrip(Tail(s)) IN
         IF Head(s) = "," /\ next # << >> /\ Head(next) \in { "}", "]" }
         THEN remove_trailing_commas(next)
         ELSE << Head(s) >> \o remove_trailing_commas(Tail(s))

\* the value {}
EmptyObject == [ kind |-> "dict", canon |-> << "{", "}" >> ]

\* extract_json, lines 46-70
extract_json_text(text) ==
    IF text = << >> THEN EmptyObject
    ELSE LET r == json_loads(remove_trailing_commas(json_string(Strip(text))))
         IN  IF r.ok THEN [ kind |-> r.kind, canon |-> r.canon ]
             ELSE EmptyObject

\* json.dump / json.dumps of a dict that holds name_mapping: a None key of
\* name_mapping is written as "null"
JsonKey(k) == IF k = NONE THEN "null" ELSE k

json_dump(ctx) ==
    [ ctx EXCEPT !.name_mapping =
        [ j \in { JsonKey(k) : k \in DOMAIN ctx.name_mapping } |->
            ctx.name_mapping[CHOOSE k \in DOMAIN ctx.name_mapping : JsonKey(k) = j] ] ]

load_context(file) == IF file.exists THEN file.content ELSE DefaultContext

save_context(ctx) == [ exists |-> TRUE, content |-> json_dump(ctx) ]

append_to_full_story(file, chapter_number, story) ==
    Append(file, [ chapter_number |-> chapter_number, text |-> story ])

filter_new_human_characters(new_chars, existing_chars) ==
    SelectSeq(new_chars,
        LAMBDA char :
            /\ char.isdict
            /\ Lower(char.species) = "human"
            /\ char.name \notin NamesOf(existing_chars))

filter_new_locations(new_locations, existing_mapping) ==
    SelectSeq(new_locations,
        LAMBDA loc : loc # "" /\ loc \notin DOMAIN existing_mapping)

\* variant of map_locations: every new location gets the first city of the
\* list instead of the story's primary city
map_locations_first_city(ctx, new_locations) ==
    IF ctx.primary_indian_city \in {NONE, ""} THEN ctx
    ELSE [ ctx EXCEPT !.city_mapping =
             DictSetAll(@, filter_new_locations(new_locations, @),
                        ANCIENT_INDIAN_CITIES[1]) ]

\* lines 427-437: map the unmapped locations to the primary city, if any
map_locations(ctx, new_locations) ==
    IF ctx.primary_indian_city \in {NONE, ""} THEN ctx
    ELSE [ ctx EXCEPT !.city_mapping =
             DictSetAll(@, filter_new_locations(new_locations, @),
                        ctx.primary_indian_city) ]

\* variant of merge_roster: the new records are put in front
merge_roster_in_front(ctx, new_chars) ==
    [ ctx EXCEPT !.all_characters =
        SelectSeq(new_chars,
            LAMBDA char :
                /\ char.isdict
                /\ char.name \notin {NONE, ""}
                /\ char.name \notin NamesOf(ctx.all_characters)) \o @ ]

\* lines 439-443: existing_names is computed once, before the loop
merge_roster(ctx, new_chars) ==
    [ ctx EXCEPT !.all_characters =
        @ \o SelectSeq(new_chars,
                LAMBDA char :
                    /\ char.isdict
                    /\ char.name \notin {NONE, ""}
                    /\ char.name \notin NamesOf(ctx.all_characters)) ]

\* variant of begin_chapter: the increment of line 334 is left out
begin_chapter_skipped(ctx) == ctx

\* line 334: context["chapter_count"] += 1
begin_chapter(ctx) == [ ctx EXCEPT !.chapter_count = @ + 1 ]

\* variant of rollback: the decrement of line 361 is forgotten
rollback_missing(ctx) == ctx

\* line 361: the increment of line 334 is taken back
rollback(ctx) == [ ctx EXCEPT !.chapter_count = @ - 1 ]

\* variant of needs_city_prompt: the test of line 403 is dropped
needs_city_prompt_always(ctx, new_locations) == new_locations # << >>

\* variant of needs_city_prompt: asks whenever a location is still unmapped
needs_city_prompt_unmapped(ctx, new_locations) ==
    filter_new_locations(new_locations, ctx.city_mapping) # << >>

\* lines 403-405: no primary city yet, and the chapter has locations
needs_city_prompt(ctx, new_locations) ==
    ctx.primary_indian_city \in {NONE, ""} /\ new_locations # << >>

update_summary_always(ctx, response) ==
    [ ctx EXCEPT !.cumulative_summary = Strip(response.words) ]

\* lines 466-467: the summary is replaced when the response is truthy
update_summary(ctx, response) ==
    IF Truthy(response.words)
    THEN [ ctx EXCEPT !.cumulative_summary = Strip(response.words) ]
    ELSE ctx

valid_name_choice_loose(input, indian_names) ==
    input.isint /\ 1 <= input.n

\* lines 387-394: int(input()) succeeds and the number is one of the
\* listed names or "keep original name"
valid_name_choice(input, indian_names) ==
    input.isint /\ 1 <= input.n /\ input.n <= Len(indian_names) + 1

\* lines 413-414: int(input()) succeeds and the number is that of a city
valid_city_choice(input) ==
    input.isint /\ 1 <= input.n /\ input.n <= Len(ANCIENT_INDIAN_CITIES)

\* line 356: the analysis has a non-empty characters list
analysis_ok(data) == data.nonempty /\ data.characters # << >>

(* ------------------------------- inputs ------------------------------- *)

Akira    == [ isdict |-> TRUE,  name |-> "Akira", species |-> "Human" ]
Yuki     == [ isdict |-> TRUE,  name |-> "Yuki",  species |-> "human" ]
Pochi    == [ isdict |-> TRUE,  name |-> "Pochi", species |-> "animal" ]
Nameless == [ isdict |-> TRUE,  name |-> NONE,    species |-> "human" ]
NotADict == [ isdict |-> FALSE, name |-> NONE,    species |-> "" ]

Analysis(chars, locs) ==
    [ isdict |-> TRUE, nonempty |-> TRUE, characters |-> chars,
      locations |-> locs, name_suggestions |-> << >> ]

\* the chapter analyses the summarizer can return
Analyses ==
    { Analysis(<< Akira, NotADict, Pochi >>, << "Tokyo", "Kyoto" >>),
      Analysis(<< Yuki, Nameless, Yuki >>, << "Shibuya", "" >>),
      Analysis(<< Pochi >>, << >>),
      Analysis(<< >>, << "Tokyo" >>) }

Suggestion(orig, names) == [ original_name |-> orig, indian_names |-> names ]

\* the name_suggestions lists the naming worker can return
SuggestionLists ==
    { << Suggestion("Akira", << "Arjun Sharma" >>), Suggestion("Pochi", << "Moti Lal" >>) >>,
      << Suggestion("Yuki", << "Meera Joshi" >>), Suggestion("Yuki", << >>) >>,
      << Suggestion(NONE, << >>) >> }

NameData(sugg) ==
    [ isdict |-> TRUE, nonempty |-> TRUE, characters |-> << >>,
      locations |-> << >>, name_suggestions |-> sugg ]

Raised == [ raised |-> TRUE, content |-> EmptyRaw ]
Returned(raw) == [ raised |-> FALSE, content |-> raw ]

\* what the summarizer call can produce
SummarizerOutcomes ==
    { Raised, Returned(EmptyRaw),
      Returned(TextRaw(<< "Sorry,", " ", "no." >>)),
      Returned(JsonRaw(ArrayValue)) }
    \cup { Returned(JsonRaw(a)) : a \in Analyses }

\* what the naming call can produce
NamingOutcomes ==
    { Raised, Returned(JsonRaw(EmptyArrayValue)) }
    \cup { Returned(JsonRaw(NameData(s))) : s \in SuggestionLists }

\* what the adapter call can produce
AdapterOutcomes ==
    { Raised,
      Returned(TextRaw(<< "katha" >>)),
      Returned(TextRaw(<< "vah", " ", "failed", " ", "hua" >>)) }

\* what the context_updater call can produce
UpdaterOutcomes ==
    { Raised,
      Returned(TextRaw(<< " ", "saar", " " >>)),
      Returned(TextRaw(<< " " >>)) }

\* a line typed at a prompt: int() accepts it or raises ValueError
\* no line has been typed yet
NoChoice == [isint |-> FALSE, n |-> -1]
NotAnInt == [ isint |-> FALSE, n |-> 0 ]
Typed(n) == [ isint |-> TRUE, n |-> n ]

NameInputs == { NotAnInt } \cup { Typed(n) : n \in 0..3 }
CityInputs == { NotAnInt } \cup { Typed(n) : n \in {0, 6, 20, 21} }

\* the chapter texts pasted into get_user_text
ChapterTexts == { << " " >>, << "chapter" >> }

\* a string literal with the characters w
Str(w) == << Q >> \o w \o << Q >>

\* a response meant to carry the JSON text object, which the generator
\* wrote as written (with trailing commas, say)
Payload(object, written) == [ object |-> object, written |-> written ]

Same(text) == Payload(text, text)

ObjectPayloads ==
    { Same(<< "{", "}" >>),
      Same(<< "{" >> \o Str(<< "a" >>) \o << ":", " ", "1", "}" >>),
      Payload(<< "{" >> \o Str(<< "a" >>) \o << ":", " ", "1", "}" >>,
              << "{" >> \o Str(<< "a" >>) \o << ":", " ", "1", ",", "}" >>),
      Payload(<< "{" >> \o Str(<< "a" >>)
                \o << ":", " ", "[", "1", ",", " ", "1", "]", "}" >>,
              << "{" >> \o Str(<< "a" >>)
                \o << ":", " ", "[", "1", ",", " ", "1", ",", " ", "]",
                      ",", " ", "}" >>),
      Same(<< "{" >> \o Str(<< "a" >>) \o << ":", " " >>
             \o Str(<< "x", ",", " ", "}" >>) \o << "}" >>),
      Same(<< "{" >> \o Str(<< "a" >>) \o << ":", " " >>
             \o Str(<< FENCE >>) \o << "}" >>) }

OtherPayloads ==
    { Same(<< >>),
      Same(<< "p", " ", "p" >>),
      Same(<< "[", "1", "]" >>),
      Same(<< "1" >>),
      Same(<< "null" >>),
      Same(Str(<< "a" >>)),
      Same(<< "{" >> \o Str(<< "a" >>) \o << ":" >>) }

Prefixes ==
    { << >>, << " " >>, << "p", " " >>, << "p", " ", "{", "p", "}", " " >> }

Suffixes == { << >>, << " ", "p" >>, << " " >> }

ExtractInputs ==
    [ prefix : Prefixes, fenced : BOOLEAN,
      payload : ObjectPayloads \cup OtherPayloads, suffix : Suffixes ]

\* the text of a response
Text(input) ==
    input.prefix
      \o (IF input.fenced THEN << FENCE_JSON, " " >> ELSE << >>)
      \o input.payload.written
      \o (IF input.fenced THEN << " ", FENCE >> ELSE << >>)
      \o input.suffix

EmptyInput ==
    [ prefix |-> << >>, fenced |-> FALSE, payload |-> Same(<< >>),
      suffix |-> << >> ]

\* extract_json has not returned
Pending == [ kind |-> "pending", canon |-> << >> ]

\* a generator call: which worker's process_input, and with what input
Call(worker, input) == [ worker |-> worker, input |-> input ]

\* lines 341-354: the chapter text on the first attempt, afterwards the
\* fixer prompt, which embeds analysis_raw
summarizer_input(tries, raw) ==
    [ fixer |-> tries > 0, embedded |-> IF tries > 0 THEN raw ELSE EmptyRaw ]

adaptation_input_stale(ctx, data) ==
    [ analysis         |-> data,
      previous_summary |-> ctx.cumulative_summary,
      name_mapping     |-> pre_context.name_mapping,
      city_mapping     |-> pre_context.city_mapping ]

\* lines 451-457
adaptation_input(ctx, data) ==
    [ analysis         |-> data,
      previous_summary |-> ctx.cumulative_summary,
      name_mapping     |-> ctx.name_mapping,
      city_mapping     |-> ctx.city_mapping ]

\* lines 461-464
updater_input(ctx) == [ previous_summary |-> ctx.cumulative_summary ]

\* a reply of a generator call, as process_input returns it
Reply(worker, raw) == [ worker |-> worker, raw |-> raw ]

NoReply == Reply("none", EmptyRaw)

\* what json.dump writes, piece by piece: the six entries of the context
Chunks(ctx) ==
    LET d == json_dump(ctx) IN
    << [ key |-> "chapter_count",       value |-> d.chapter_count ],
       [ key |-> "name_mapping",        value |-> d.name_mapping ],
       [ key |-> "primary_indian_city", value |-> d.primary_indian_city ],
       [ key |-> "city_mapping",        value |-> d.city_mapping ],
       [ key |-> "cumulative_summary",  value |-> d.cumulative_summary ],
       [ key |-> "all_characters",      value |-> d.all_characters ] >>

\* story_context.json on disk: missing, empty, or with the whole context
Absent == [ exists |-> FALSE, chunks |-> << >> ]

Truncated == [ exists |-> TRUE, chunks |-> << >> ]

Complete(ctx) == [ exists |-> TRUE, chunks |-> Chunks(ctx) ]

\* the context after a first chapter with Akira and Pochi in Tokyo and
\* Kyoto, and after a second chapter that adds nothing
AfterChapterOne ==
    [ chapter_count       |-> 1,
      name_mapping        |-> ("Akira" :> "Arjun Sharma") @@ ("Pochi" :> "Moti Lal"),
      primary_indian_city |-> "Kashi",
      city_mapping        |-> ("Tokyo" :> "Kashi") @@ ("Kyoto" :> "Kashi"),
      cumulative_summary  |-> << "saar" >>,
      all_characters      |-> << Akira, Pochi >> ]

AfterChapterTwo == [ AfterChapterOne EXCEPT !.chapter_count = 2 ]

SaveContexts == { DefaultContext, AfterChapterOne, AfterChapterTwo }

(* ------------------------------- state -------------------------------- *)

\* extract_json is not looked at on its own
ExtractIdle ==
    /\ ex_input = EmptyInput
    /\ ex_result = Pending

\* save_context is not looked at on its own
SaveIdle ==
    /\ save_arg = DefaultContext
    /\ save_pc = "idle"
    /\ prior_disk = Absent
    /\ disk = Absent

\* no story directory yet, and main is not running
PipelineIdle ==
    /\ stored = [ exists |-> FALSE, content |-> DefaultContext ]
    /\ transcript = << >>
    /\ pc = "idle"
    /\ context = DefaultContext
    /\ attempt = 0
    /\ analysis_raw = EmptyRaw
    /\ analysis_data = EmptyDict
    /\ suggestions = << >>
    /\ hindi_story = EmptyRaw
    /\ reprompts = 0
    /\ runs = 0
    /\ pre_context = DefaultContext
    /\ result = "none"
    /\ city_prompts = 0
    /\ loc_chapters = 0
    /\ naming_payload = << >>
    /\ choice = NoChoice
    /\ new_cumulative_summary = EmptyRaw
    /\ calls = << >>
    /\ last_reply = NoReply
    /\ hindi_chapter = EmptyRaw

Init ==
    /\ PipelineIdle
    /\ ExtractIdle
    /\ SaveIdle

(* --------------------- continuations of a step ------------------------ *)

\* run_pipeline goes on to its next blocking point
Continue(next_pc, ctx) ==
    /\ pc' = next_pc
    /\ context' = ctx
    /\ result' = "running"
    /\ reprompts' = 0
    /\ UNCHANGED <<stored, transcript>>

\* run_pipeline calls a worker's process_input and waits for the reply
Invoke(worker, input, ctx) ==
    /\ Continue(worker, ctx)
    /\ calls' = Append(calls, Call(worker, input))

\* run_pipeline shows a prompt and waits for a line
Ask(prompt, ctx) ==
    /\ Continue(prompt, ctx)
    /\ UNCHANGED calls

\* the process ends: its local variables are gone
ProcessExit(ctx, how) ==
    /\ pc' = "idle"
    /\ context' = ctx
    /\ result' = how
    /\ reprompts' = 0
    /\ attempt' = 0
    /\ analysis_raw' = EmptyRaw
    /\ analysis_data' = EmptyDict
    /\ suggestions' = << >>
    /\ hindi_story' = EmptyRaw
    /\ pre_context' = DefaultContext
    /\ naming_payload' = << >>
    /\ choice' = NoChoice
    /\ calls' = << >>

\* variant of Crash: the context is saved although the call raised
CrashThenSave(ctx) ==
    /\ ProcessExit(ctx, "raised")
    /\ new_cumulative_summary' = EmptyRaw
    /\ hindi_chapter' = EmptyRaw
    /\ stored' = save_context(ctx)
    /\ UNCHANGED <<transcript, city_prompts, loc_chapters>>

\* an exception leaves run_pipeline; main (lines 567-570) reports it
Crash(ctx) ==
    /\ ProcessExit(ctx, "raised")
    /\ new_cumulative_summary' = EmptyRaw
    /\ hindi_chapter' = EmptyRaw
    /\ UNCHANGED <<stored, transcript, city_prompts, loc_chapters>>

\* run_pipeline returns (story, ctx); main lines 556-565
Return(story, ctx, how) ==
    /\ ProcessExit(ctx, how)
    /\ hindi_chapter' = story
    /\ stored' = save_context(ctx)
    /\ transcript' =
         IF ctx.chapter_count > 0 /\ ~ContainsFailed(story.words)
         THEN append_to_full_story(transcript, ctx.chapter_count, story.words)
         ELSE transcript
    /\ UNCHANGED <<city_prompts, loc_chapters>>

\* lines 398-443: the location stage and the roster merge
LocationStage(ctx, data) ==
    /\ loc_chapters' = IF data.locations # << >> THEN loc_chapters + 1
                                                 ELSE loc_chapters
    /\ IF needs_city_prompt(ctx, data.locations)
       THEN /\ Ask("city_prompt", ctx)
            /\ city_prompts' = city_prompts + 1
       ELSE /\ LET merged == merge_roster(map_locations(ctx, data.locations),
                                         data.characters)
               IN  \* line 458: the input goes out as json.dumps writes it
                   Invoke("adapter", json_dump(adaptation_input(merged, data)),
                          merged)
            /\ UNCHANGED city_prompts

(* ------------------------------ actions ------------------------------- *)

\* main lines 546-554 and run_pipeline lines 334-354, up to the first call
MainStart ==
    /\ pc = "idle"
    /\ UNCHANGED <<extract_vars, save_vars>>
    /\ runs < MaxRuns
    /\ runs' = runs + 1
    /\ \E text \in ChapterTexts :
         LET story_context == load_context(stored) IN
         IF ~Truthy(Strip(text))
         THEN \* line 551: ValueError
              /\ Crash(story_context)
              /\ last_reply' = NoReply
         ELSE /\ Invoke("summarizer", summarizer_input(0, EmptyRaw),
                        begin_chapter(story_context))
              /\ pre_context' = story_context
              /\ new_cumulative_summary' = EmptyRaw
              /\ last_reply' = NoReply
              /\ hindi_chapter' = EmptyRaw
              /\ UNCHANGED <<attempt, analysis_raw, analysis_data, suggestions,
                             hindi_story, naming_payload, city_prompts,
                             loc_chapters, choice>>

\* the summarizer call returns: lines 355-374
SummarizerReturns ==
    /\ pc = "summarizer"
    /\ UNCHANGED <<extract_vars, save_vars>>
    /\ UNCHANGED runs
    /\ \E outcome \in SummarizerOutcomes :
         LET raw  == process_input(outcome)
             data == extract_json(raw)
         IN
         (last_reply' = Reply("summarizer", raw)) /\
         IF data.nonempty /\ ~data.isdict
         THEN \* line 356: data.get raises AttributeError
              Crash(context)
         ELSE IF analysis_ok(data)
         THEN LET new_human_characters ==
                      filter_new_human_characters(data.characters,
                                                  context.all_characters)
              IN
              /\ analysis_raw' = raw
              /\ analysis_data' = data
              /\ UNCHANGED <<attempt, suggestions, hindi_story, pre_context,
                             choice, new_cumulative_summary, hindi_chapter>>
              /\ IF new_human_characters = << >>
                 THEN /\ LocationStage(context, data)
                      /\ UNCHANGED naming_payload
                 ELSE /\ Invoke("naming", new_human_characters, context)
                      /\ naming_payload' = new_human_characters
                      /\ UNCHANGED <<city_prompts, loc_chapters>>
         ELSE IF attempt + 1 < max_retries
         THEN /\ attempt' = attempt + 1
              /\ analysis_raw' = raw
              /\ analysis_data' = data
              /\ Invoke("summarizer", summarizer_input(attempt + 1, raw),
                        context)
              /\ UNCHANGED <<suggestions, hindi_story, pre_context,
                             city_prompts, loc_chapters, naming_payload,
                             choice, new_cumulative_summary, hindi_chapter>>
         ELSE \* lines 359-362
              /\ Return(TextRaw(FailureMessage), rollback(context), "failed")
              /\ UNCHANGED new_cumulative_summary

\* the naming call returns: lines 375-378
NamingReturns ==
    /\ pc = "naming"
    /\ UNCHANGED <<extract_vars, save_vars>>
    /\ UNCHANGED runs
    /\ \E outcome \in NamingOutcomes :
         LET name_suggestions_raw == process_input(outcome)
             name_data == extract_json(name_suggestions_raw)
         IN
         (last_reply' = Reply("naming", name_suggestions_raw)) /\
         IF ~name_data.isdict
         THEN \* line 376: name_data.get raises AttributeError
              Crash(context)
         ELSE /\ UNCHANGED <<attempt, analysis_raw, analysis_data, hindi_story,
                             pre_context, naming_payload, choice,
                             new_cumulative_summary, hindi_chapter>>
              /\ IF name_data.name_suggestions # << >>
                 THEN /\ suggestions' = name_data.name_suggestions
                      /\ Ask("name_prompt", context)
                      /\ UNCHANGED <<city_prompts, loc_chapters>>
                 ELSE /\ LocationStage(context, analysis_data)
                      /\ UNCHANGED suggestions

\* a line is typed at the character-name prompt: lines 385-396
NameChoice ==
    /\ pc = "name_prompt"
    /\ UNCHANGED <<extract_vars, save_vars>>
    /\ UNCHANGED <<runs, attempt, analysis_raw, analysis_data, hindi_story,
                   pre_context, naming_payload, new_cumulative_summary,
                   last_reply, hindi_chapter>>
    /\ \E input \in NameInputs :
         LET suggestion    == Head(suggestions)
             original_name == suggestion.original_name
             indian_names  == suggestion.indian_names
             valid  == valid_name_choice(input, indian_names)
             chosen == IF input.n <= Len(indian_names)
                       THEN indian_names[input.n] ELSE original_name
             ctx == [ context EXCEPT !.name_mapping =
                        DictSet(@, original_name, chosen) ]
         IN
         /\ choice' = input
         /\ IF ~valid
            THEN /\ reprompts < MaxInvalid
                 /\ reprompts' = reprompts + 1
                 /\ UNCHANGED <<pc, context, stored, transcript, result,
                                suggestions, city_prompts, loc_chapters,
                                calls>>
            ELSE /\ suggestions' = Tail(suggestions)
                 /\ IF Tail(suggestions) # << >>
                    THEN /\ Ask("name_prompt", ctx)
                         /\ UNCHANGED <<city_prompts, loc_chapters>>
                    ELSE LocationStage(ctx, analysis_data)

\* a line is typed at the city prompt: lines 411-443
CityChoice ==
    /\ pc = "city_prompt"
    /\ UNCHANGED <<extract_vars, save_vars>>
    /\ UNCHANGED <<runs, attempt, analysis_raw, analysis_data, suggestions,
                   hindi_story, pre_context, naming_payload, city_prompts,
                   loc_chapters, new_cumulative_summary, last_reply,
                   hindi_chapter>>
    /\ \E input \in CityInputs :
         LET valid == valid_city_choice(input)
             ctx == [ context EXCEPT !.primary_indian_city =
                        ANCIENT_INDIAN_CITIES[input.n] ]
         IN
         /\ choice' = input
         /\ IF ~valid
            THEN /\ reprompts < MaxInvalid
                 /\ reprompts' = reprompts + 1
                 /\ UNCHANGED <<pc, context, stored, transcript, result,
                                calls>>
            ELSE LET merged ==
                        merge_roster(map_locations(ctx, analysis_data.locations),
                                     analysis_data.characters)
                 IN  Invoke("adapter",
                            json_dump(adaptation_input(merged, analysis_data)),
                            merged)

\* the adapter call returns: line 458
AdapterReturns ==
    /\ pc = "adapter"
    /\ UNCHANGED <<extract_vars, save_vars>>
    /\ UNCHANGED <<runs, attempt, analysis_raw, analysis_data, suggestions,
                   pre_context, city_prompts, loc_chapters, naming_payload,
                   new_cumulative_summary, hindi_chapter>>
    /\ choice' = NoChoice
    /\ \E outcome \in AdapterOutcomes :
         /\ hindi_story' = process_input(outcome)
         /\ last_reply' = Reply("adapter", process_input(outcome))
         /\ Invoke("context_updater", updater_input(context), context)

\* the context_updater call returns: lines 465-472, then main lines 556-565
UpdaterReturns ==
    /\ pc = "context_updater"
    /\ UNCHANGED <<extract_vars, save_vars>>
    /\ UNCHANGED runs
    /\ \E outcome \in UpdaterOutcomes :
         LET response == process_input(outcome)
             ctx == update_summary(context, response)
         IN
         /\ new_cumulative_summary' = response
         /\ last_reply' = Reply("context_updater", response)
         /\ Return(hindi_story, ctx, "ok")

Next ==
    \/ MainStart
    \/ SummarizerReturns
    \/ NamingReturns
    \/ NameChoice
    \/ CityChoice
    \/ AdapterReturns
    \/ UpdaterReturns

Spec == Init /\ [][Next]_vars

(* ------------------------- extract_json alone ------------------------- *)

ExtractInit ==
    /\ ex_input \in ExtractInputs
    /\ ex_result = Pending
    /\ PipelineIdle
    /\ SaveIdle

\* extract_json(text) is called and returns
ExtractJson ==
    /\ ex_result = Pending
    /\ ex_result' = extract_json_text(Text(ex_input))
    /\ UNCHANGED <<ex_input, pipeline_vars, save_vars>>

ExtractNext == ExtractJson

SpecExtract == ExtractInit /\ [][ExtractNext]_vars

(* ------------------------- save_context alone ------------------------- *)

\* save_context(context, story_path) has been called; the file is as an
\* earlier run left it
SaveInit ==
    /\ save_arg \in SaveContexts
    /\ prior_disk \in { Absent } \cup { Complete(ctx) : ctx \in SaveContexts }
    /\ disk = prior_disk
    /\ save_pc = "called"
    /\ PipelineIdle
    /\ ExtractIdle

\* line 94: open(context_file, 'w') creates the file or empties it
SaveOpen ==
    /\ save_pc = "called"
    /\ save_pc' = "open"
    /\ disk' = Truncated
    /\ UNCHANGED <<save_arg, prior_disk, pipeline_vars, extract_vars>>

\* line 95: json.dump writes the next piece
SaveWrite ==
    /\ save_pc = "open"
    /\ Len(disk.chunks) < Len(Chunks(save_arg))
    /\ disk' = [ disk EXCEPT !.chunks =
                   Append(@, Chunks(save_arg)[Len(@) + 1]) ]
    /\ UNCHANGED <<save_arg, save_pc, prior_disk, pipeline_vars, extract_vars>>

\* lines 94-96: everything is written, the with block closes the file
SaveClose ==
    /\ save_pc = "open"
    /\ Len(disk.chunks) = Len(Chunks(save_arg))
    /\ save_pc' = "closed"
    /\ UNCHANGED <<save_arg, prior_disk, disk, pipeline_vars, extract_vars>>

\* the write fails (OSError) or the process is interrupted or killed
SaveInterrupted ==
    /\ save_pc \in { "called", "open" }
    /\ save_pc' = "interrupted"
    /\ UNCHANGED <<save_arg, prior_disk, disk, pipeline_vars, extract_vars>>

SaveNext ==
    \/ SaveOpen
    \/ SaveWrite
    \/ SaveClose
    \/ SaveInterrupted

SpecSave == SaveInit /\ [][SaveNext]_vars

(* ------------------------------ claims -------------------------------- *)

\* the chapter_count of story_context.json (0 while the file does not exist)
PersistedCount == load_context(stored).chapter_count

\* C1 (as claimed): after every completed run of main the persisted
\* chapter_count equals the number of chapter blocks in the transcript.
C1_CountEqualsBlocks ==
    (pc = "idle" /\ result # "none") => PersistedCount = Len(transcript)

\* C2 (as claimed): when the adapter call failed, so that process_input
\* returned the empty string, main appends no chapter block.
C2_NoAppendAfterAdapterFailure ==
    [][ (pc = "context_updater" /\ ~Truthy(hindi_story.words))
          => transcript' = transcript ]_vars

\* C3 (as claimed): when the analysis is invalid on both attempts (the run
\* leaves the second summarizer call without a valid analysis), run_pipeline
\* returns the failure indicator, chapter_count is back at its pre-call value
\* and nothing is appended to the transcript.
C3_AnalysisFailsTwice ==
    [][ (pc = "summarizer" /\ attempt = 1 /\ pc' = "idle")
          => /\ result' = "failed"
             /\ context'.chapter_count = pre_context.chapter_count
             /\ transcript' = transcript ]_vars

\* C4: on the ChapterAnalysisFailed path the context run_pipeline returns
\* equals, field by field, the context it received.
C4_FailurePathKeepsContext ==
    [][ result' = "failed" => context' = pre_context ]_vars

C4_Witness ==
    /\ pc = "idle"
    /\ result = "failed"
    /\ context.chapter_count = 1
    /\ context.name_mapping # EmptyMap
    /\ context.city_mapping # EmptyMap
    /\ context.all_characters # << >>

CityValues(ctx) == { ctx.city_mapping[k] : k \in DOMAIN ctx.city_mapping }

SingleCityLaw(ctx) ==
    /\ \A k \in DOMAIN ctx.city_mapping :
         ctx.city_mapping[k] = ctx.primary_indian_city
    /\ Cardinality(CityValues(ctx)) <= 1

\* C5: in memory and on disk, every value of city_mapping equals
\* primary_indian_city, so city_mapping has at most one distinct value.
C5_SingleCityLaw ==
    /\ SingleCityLaw(context)
    /\ SingleCityLaw(load_context(stored))

C5_Witness ==
    /\ stored.exists
    /\ stored.content.chapter_count = 2
    /\ DOMAIN stored.content.city_mapping = { "Tokyo", "Kyoto", "Shibuya" }

\* C6: once primary_indian_city is set, in memory or on disk, no step of any
\* later chapter, successful or failed, changes it.
C6_PrimaryCityNeverChanges ==
    [][ /\ context.primary_indian_city # NONE
          => context'.primary_indian_city = context.primary_indian_city
        /\ load_context(stored).primary_indian_city # NONE
          => load_context(stored').primary_indian_city
               = load_context(stored).primary_indian_city ]_vars

C6_Witness ==
    /\ pc = "idle"
    /\ runs = 2
    /\ result = "failed"
    /\ stored.content.primary_indian_city = "Kashi"

\* C7: the city prompt is shown exactly once, in the first chapter with a
\* non-empty locations list that reaches the location stage, and never
\* again; when a chapter has passed the location stage each of its
\* non-empty locations is mapped to the chosen city.
C7_CityPromptOnce ==
    /\ city_prompts = IF loc_chapters > 0 THEN 1 ELSE 0
    /\ pc \in { "adapter", "context_updater" } =>
         \A i \in 1..Len(analysis_data.locations) :
            LET loc == analysis_data.locations[i] IN
            loc # "" =>
               /\ loc \in DOMAIN context.city_mapping
               /\ context.primary_indian_city # NONE
               /\ context.city_mapping[loc] = context.primary_indian_city

C7_Witness ==
    /\ pc = "adapter"
    /\ pre_context.primary_indian_city # NONE
    /\ city_prompts = 1
    /\ loc_chapters = 2
    /\ "Shibuya" \in DOMAIN context.city_mapping
    /\ "Shibuya" \notin DOMAIN pre_context.city_mapping

\* C8 (as claimed): all_characters never holds two records with one name.
C8_NoDuplicateNames ==
    \A i, j \in 1..Len(context.all_characters) :
        i # j => context.all_characters[i].name # context.all_characters[j].name

\* C9 (as claimed): after every chapter, each key of name_mapping is the
\* name of a record of all_characters.
C9_MappedNamesAreInRoster ==
    (pc = "idle" /\ result = "ok") =>
        DOMAIN context.name_mapping \subseteq NamesOf(context.all_characters)

\* C10 (as claimed): a character whose species is not "human" in any letter
\* case is never in the naming payload and never has a name_mapping entry.
C10_NonHumansAreNeverNamed ==
    /\ \A i \in 1..Len(naming_payload) :
         Lower(naming_payload[i].species) = "human"
    /\ \A i \in 1..Len(context.all_characters) :
         LET char == context.all_characters[i] IN
         Lower(char.species) # "human" =>
             char.name \notin DOMAIN context.name_mapping

\* the named characters of this chapter's analysis that are not human and
\* were not in the roster when the chapter began
NewNonHumans ==
    { analysis_data.characters[i].name : i \in
        { j \in 1..Len(analysis_data.characters) :
            LET char == analysis_data.characters[j] IN
            /\ char.isdict
            /\ char.name \notin {NONE, ""}
            /\ Lower(char.species) # "human"
            /\ char.name \notin NamesOf(pre_context.all_characters) } }

\* C11 (as claimed): a previously unseen named character whose species is
\* not human gets no naming prompt, the naming generator is not called when
\* the chapter has no new human character, and the character is in
\* all_characters once the roster has been merged.
C11_NonHumanNewcomer ==
    /\ pc = "naming" => naming_payload # << >>
    /\ pc = "name_prompt" =>
          Head(suggestions).original_name \notin NewNonHumans
    /\ pc \in { "adapter", "context_updater" } =>
          NewNonHumans \subseteq NamesOf(context.all_characters)

\* C12 (as claimed): once name_mapping has an entry for an original name, no
\* naming step of this or a later chapter changes the entry's value.
C12_NameEntriesAreFinal ==
    [][ pc = "name_prompt" =>
          \A k \in DOMAIN context.name_mapping :
             /\ k \in DOMAIN context'.name_mapping
             /\ context'.name_mapping[k] = context.name_mapping[k] ]_vars

\* the location stage has already resolved these locations on ctx
Resolved(ctx, locations) ==
    \/ locations = << >>
    \/ /\ ctx.primary_indian_city # NONE
       /\ \A i \in 1..Len(locations) :
             locations[i] # "" => locations[i] \in DOMAIN ctx.city_mapping

\* a step in which run_pipeline goes through the location stage
LocationStep ==
    /\ pc \in { "summarizer", "naming", "name_prompt" }
    /\ pc' \in { "city_prompt", "adapter" }

\* C13: the location stage run again with the same locations on the context
\* it produced shows no city prompt and leaves city_mapping and
\* primary_indian_city as they are; no step reassigns a city_mapping key.
C13_LocationStageIdempotent ==
    [][ /\ (LocationStep /\ Resolved(context, analysis_data'.locations)) =>
             /\ pc' = "adapter"
             /\ city_prompts' = city_prompts
             /\ context'.city_mapping = context.city_mapping
             /\ context'.primary_indian_city = context.primary_indian_city
        /\ pc' \in { "adapter", "context_updater" } =>
             /\ ~needs_city_prompt(context', analysis_data'.locations)
             /\ map_locations(context', analysis_data'.locations) = context'
        /\ \A k \in DOMAIN context.city_mapping :
             /\ k \in DOMAIN context'.city_mapping
             /\ context'.city_mapping[k] = context.city_mapping[k] ]_vars

\* the second chapter with the locations Tokyo and Kyoto has passed the
\* location stage
C13_Witness ==
    /\ pc = "adapter"
    /\ runs = 2
    /\ analysis_data.locations = <<"Tokyo", "Kyoto">>
    /\ DOMAIN pre_context.city_mapping = { "Tokyo", "Kyoto" }
    /\ context.city_mapping = pre_context.city_mapping
    /\ city_prompts = 1

\* C14: when the context_updater call returns, a non-empty response
\* replaces cumulative_summary, in memory and on disk, with the response
\* stripped of leading and trailing white space; an empty response (the
\* call failed) leaves cumulative_summary as it was; in both cases the
\* chapter ends as succeeded with its chapter_count kept.
C14_SummaryUpdate ==
    [][ pc = "context_updater" =>
          /\ result' = "ok"
          /\ context'.chapter_count = context.chapter_count
          /\ context'.cumulative_summary =
                IF new_cumulative_summary'.words # << >>
                THEN Strip(new_cumulative_summary'.words)
                ELSE context.cumulative_summary
          /\ load_context(stored').cumulative_summary
                = context'.cumulative_summary ]_vars

\* the second chapter's context_updater call failed and the summary of the
\* first chapter is still in place
C14_Witness ==
    /\ pc = "idle"
    /\ result = "ok"
    /\ runs = 2
    /\ new_cumulative_summary = EmptyRaw
    /\ context.cumulative_summary = << "saar" >>
    /\ load_context(stored).chapter_count = 2

\* C15 (as claimed): whatever the input string, what extract_json returns
\* is a mapping.
C15_AlwaysAMapping ==
    ex_result # Pending => ex_result.kind = "dict"

\* the value of the JSON object a payload is meant to carry
ObjectOf(payload) ==
    LET r == json_loads(payload.object) IN [ kind |-> r.kind, canon |-> r.canon ]

\* C16 (as claimed): for a valid JSON object wrapped in prose and/or a json
\* code fence, possibly written with trailing commas before } or ],
\* extract_json returns exactly that object, string values unaltered.
C16_RecoversThePayload ==
    (ex_result # Pending /\ ex_input.payload \in ObjectPayloads) =>
        ex_result = ObjectOf(ex_input.payload)

\* C17 (as claimed): for every context run_pipeline returns, load_context
\* after save_context gives back a record equal to the saved one.
C17_SaveLoadRoundTrip ==
    (pc = "idle" /\ result \in { "ok", "failed" }) =>
        /\ stored = save_context(context)
        /\ load_context(save_context(context)) = context

\* C18 (as claimed): when the write of save_context fails or is interrupted
\* at any point, the file holds the complete prior version or the complete
\* new version, never an empty or partly written record.
C18_SaveIsAllOrNothing ==
    save_pc = "interrupted" =>
        \/ disk = prior_disk
        \/ disk = Complete(save_arg)

\* the line just typed is not an integer, or not a number the prompt offers
InvalidNameEntry ==
    /\ pc = "name_prompt"
    /\ \/ ~choice'.isint
       \/ choice'.n < 1
       \/ choice'.n > Len(Head(suggestions).indian_names) + 1

InvalidCityEntry ==
    /\ pc = "city_prompt"
    /\ \/ ~choice'.isint
       \/ choice'.n < 1
       \/ choice'.n > Len(ANCIENT_INDIAN_CITIES)

\* C19: an invalid entry at the character-name prompt or at the city prompt
\* leaves the context, the files and the list of pending suggestions as
\* they are and shows the same prompt again; the chapter goes on.
C19_InvalidEntryReprompts ==
    [][ (InvalidNameEntry \/ InvalidCityEntry) =>
          /\ context' = context
          /\ pc' = pc
          /\ suggestions' = suggestions
          /\ analysis_data' = analysis_data
          /\ result' = "running"
          /\ stored' = stored
          /\ transcript' = transcript
          /\ city_prompts' = city_prompts ]_vars

\* 21 has been typed at the city prompt, after a name was chosen, and the
\* city prompt is shown again
C19_Witness ==
    /\ pc = "city_prompt"
    /\ choice = Typed(21)
    /\ reprompts = 1
    /\ context.name_mapping # EmptyMap
    /\ context.primary_indian_city = NONE

\* C20: when a call of run_pipeline ends, chapter_count is its value before
\* the call if the analysis failed and that value plus one otherwise; the
\* persisted chapter_count never decreases, and neither count is negative.
C20_ChapterCountSteps ==
    [][ /\ (pc \notin { "idle" } /\ pc' = "idle") =>
             context'.chapter_count =
                 IF result' = "failed" THEN pre_context.chapter_count
                                       ELSE pre_context.chapter_count + 1
        /\ load_context(stored').chapter_count
              >= load_context(stored).chapter_count
        /\ load_context(stored').chapter_count >= 0
        /\ context'.chapter_count >= 0 ]_vars

\* the second call failed in its analysis after a first chapter succeeded
C20_Witness ==
    /\ pc = "idle"
    /\ result = "failed"
    /\ runs = 2
    /\ context.chapter_count = 1
    /\ load_context(stored).chapter_count = 1

(* ---------------- the analysis attempts (lines 337-362) --------------- *)

\* the summarizer calls made so far in this run_pipeline call
SummarizerCalls == SelectSeq(calls, LAMBDA c : c.worker = "summarizer")

\* a summarizer result without a non-empty characters list
LacksCharacters(raw) ==
    LET data == extract_json(raw)
    IN  ~(data.isdict /\ data.characters # << >>)

\* C21: the summarizer is called at most 2 times per chapter; the second
\* call is made exactly when the first result lacks a non-empty characters
\* list, and its prompt embeds the raw output of the first attempt; after a
\* second such result the stage ends in the failure return without a third
\* call.
C21_AnalysisAttempts ==
    [][ pc = "summarizer" =>
          /\ Len(SummarizerCalls') <= max_retries
          /\ attempt = 0 =>
               /\ (pc' = "summarizer") <=> LacksCharacters(last_reply'.raw)
               /\ pc' = "summarizer" =>
                    /\ Len(SummarizerCalls') = 2
                    /\ calls'[Len(calls')].input.fixer
                    /\ calls'[Len(calls')].input.embedded = last_reply'.raw
          /\ attempt = 1 =>
               /\ pc' # "summarizer"
               /\ LacksCharacters(last_reply'.raw) => result' = "failed" ]_vars

\* C22: a transport failure or an empty response during analysis (both
\* reach run_pipeline as the empty text) is handled like malformed output:
\* on the first attempt it triggers the retry, on the second the run
\* returns the failure message with chapter_count rolled back; it never
\* leaves run_pipeline as an exception.
C22_EmptyResponseIsAnAttempt ==
    [][ (pc = "summarizer" /\ last_reply'.raw = EmptyRaw) =>
          /\ result' # "raised"
          /\ attempt = 0 =>
               /\ pc' = "summarizer"
               /\ attempt' = 1
               /\ result' = "running"
               /\ Len(SummarizerCalls') = 2
               /\ context' = context
          /\ attempt = 1 =>
               /\ pc' = "idle"
               /\ result' = "failed"
               /\ hindi_chapter' = TextRaw(FailureMessage)
               /\ context'.chapter_count = pre_context.chapter_count
               /\ stored'.content.chapter_count = pre_context.chapter_count
               /\ transcript' = transcript ]_vars

\* a second chapter whose analysis ends in the failure return because the
\* second summarizer call gave the empty text
C22_Witness ==
    /\ pc = "idle"
    /\ result = "failed"
    /\ runs = 2
    /\ last_reply = Reply("summarizer", EmptyRaw)
    /\ context.chapter_count = 1
    /\ stored.content.chapter_count = 1

(* ------------ the order of the generator calls (333-472) -------------- *)

\* the workers called so far in this run_pipeline call, in call order
Workers == [ i \in 1..Len(calls) |-> calls[i].worker ]

\* summarizer (1 or 2), naming (0 or 1), adapter (1), context_updater (1)
StageOrders ==
    { s \o n \o << "adapter", "context_updater" >> :
        s \in { << "summarizer" >>, << "summarizer", "summarizer" >> },
        n \in { << >>, << "naming" >> } }

\* C23: within one run_pipeline call the generator calls come in the order
\* summarizer (1 or 2 calls), naming (0 or 1), adapter (exactly 1),
\* context_updater (exactly 1), no stage revisited; naming, adapter and
\* context_updater are called only after the analysis succeeded (a call
\* that ends in the analysis stage made summarizer calls only).
C23_CallOrder ==
    [][ /\ pc' \in { "naming", "adapter", "context_updater" }
             => analysis_ok(analysis_data')
        /\ (pc # "idle" /\ pc' = "idle") =>
             IF pc = "summarizer"
             THEN Workers \in { << "summarizer" >>,
                                << "summarizer", "summarizer" >> }
             ELSE Workers \in StageOrders ]_vars

(* ----------------- the adaptation call (lines 450-472) ---------------- *)

\* the input of the adapter call of this run_pipeline call
AdapterCall == SelectSeq(calls, LAMBDA c : c.worker = "adapter")[1].input

\* C24: the adapter call receives name_mapping and city_mapping as they
\* stand after this chapter's name and location resolution (written as
\* JSON; they are the mappings the chapter is saved with) and the cumulative
\* summary from before this chapter's summary update; what the adapter
\* returns is returned as the chapter text unmodified.
C24_AdaptationInput ==
    [][ /\ (pc # "adapter" /\ pc' = "adapter") =>
             /\ calls'[Len(calls')].worker = "adapter"
             /\ AdapterCall'.name_mapping = json_dump(context').name_mapping
             /\ AdapterCall'.city_mapping = context'.city_mapping
             /\ AdapterCall'.previous_summary = pre_context'.cumulative_summary
        /\ (pc = "context_updater" /\ pc' = "idle") =>
             /\ AdapterCall.name_mapping = stored'.content.name_mapping
             /\ AdapterCall.city_mapping = stored'.content.city_mapping
             /\ AdapterCall.previous_summary = pre_context.cumulative_summary
             /\ last_reply.worker = "adapter"
             /\ hindi_chapter' = last_reply.raw ]_vars

\* a second chapter that added a name and a city before the adapter ran,
\* the adapter's text returned and the summary replaced
C24_Witness ==
    /\ pc = "idle"
    /\ result = "ok"
    /\ runs = 2
    /\ hindi_chapter.words # << >>
    /\ Truthy(new_cumulative_summary.words)
    /\ context.chapter_count = 2
    /\ Len(context.all_characters) >= 2
    /\ DOMAIN context.name_mapping # {}
    /\ DOMAIN context.city_mapping # {}

(* ------------------- the roster (lines 439-443) ----------------------- *)

IsPrefix(s, t) == Len(s) <= Len(t) /\ SubSeq(t, 1, Len(s)) = s

\* C25: all_characters is append-only in first-seen order: the roster
\* before a run_pipeline call is a prefix of the roster after it, in memory
\* at every step of the call and from one saved context to the next.
C25_RosterAppendOnly ==
    [][ /\ IsPrefix(stored.content.all_characters,
                    stored'.content.all_characters)
        /\ pc # "idle" =>
             /\ IsPrefix(context.all_characters, context'.all_characters)
             /\ IsPrefix(pre_context.all_characters, context'.all_characters)
        /\ pc = "idle" =>
             IsPrefix(stored.content.all_characters, context'.all_characters)
      ]_vars

\* a second chapter whose merge added records behind those of the first
C25_Witness ==
    /\ pc = "adapter"
    /\ runs = 2
    /\ pre_context.all_characters # << >>
    /\ Len(context.all_characters) > Len(pre_context.all_characters)

(* --------------- an interrupted run (lines 546-571) ------------------- *)

\* C26: when run_pipeline is left by an exception, main neither saves the
\* context nor appends to the transcript: both files keep the values they
\* had before the run (they change only in the step in which run_pipeline
\* returns), although chapter_count may already be incremented in memory.
C26_InterruptedRunWritesNothing ==
    [][ (result' = "raised" \/ pc' # "idle") =>
          /\ stored' = stored
          /\ transcript' = transcript
          /\ pc # "idle" =>
               /\ load_context(stored').chapter_count
                    = pre_context.chapter_count
               /\ context'.chapter_count = pre_context.chapter_count + 1
      ]_vars

\* a second chapter interrupted after the increment: 2 in memory, 1 saved
C26_Witness ==
    /\ pc = "idle"
    /\ result = "raised"
    /\ runs = 2
    /\ context.chapter_count = 2
    /\ stored.exists
    /\ stored.content.chapter_count = 1
    /\ Len(transcript) = 1

(* ---------------------- the end of a call ----------------------------- *)

\* how far a run_pipeline call is from its end: the stages still ahead,
\* the summarizer attempts left and the name prompts still to be answered
Rank ==
    CASE pc = "summarizer"      -> 60 + (max_retries - attempt)
      [] pc = "naming"          -> 50
      [] pc = "name_prompt"     -> 40 + Len(suggestions)
      [] pc = "city_prompt"     -> 30
      [] pc = "adapter"         -> 20
      [] pc = "context_updater" -> 10
      [] OTHER                  -> 0

\* C27: every run_pipeline call ends by returning the chapter text or the
\* failure message, given that the generator calls return and the user
\* enters valid selections: each reply and each valid entry brings the call
\* closer to its end, the analysis loop runs at most 2 times, and the call
\* is left by a return.
C27_EveryCallReturns ==
    [][ pc # "idle" =>
          /\ attempt' < max_retries
          /\ reprompts' = 0 => Rank' < Rank
          /\ pc' = "idle" =>
               \/ result' = "ok" /\ hindi_chapter' = hindi_story
               \/ result' = "failed"
                    /\ hindi_chapter' = TextRaw(FailureMessage) ]_vars

(* ----------------- the transcript (lines 98-104) ---------------------- *)

\* C28: the chapter blocks of the transcript carry the consecutive numbers
\* 1, 2, ..., n in append order, none missing and none twice.
C28_ConsecutiveChapterNumbers ==
    \A i \in 1..Len(transcript) : transcript[i].chapter_number = i

(* ------------- humans of the roster and their mappings ---------------- *)

\* C29: after every successfully processed chapter every record of
\* all_characters whose species is human has a name_mapping entry under
\* its name, whatever the naming generator answered.
C29_RosterHumansAreMapped ==
    (pc = "idle" /\ result = "ok") =>
        \A i \in 1..Len(context.all_characters) :
            LET char == context.all_characters[i]
            IN  (char.isdict /\ Lower(char.species) = "human")
                    => char.name \in DOMAIN context.name_mapping

====
